---------------------------- MODULE Spec2Model ----------------------------
(***************************************************************************)
(* A model of SuperReader.py: the speaker registry (SpeakerManager), the   *)
(* line-by-line speaker attribution (process_text_lines and the functions  *)
(* it calls), the alternation mode, the gender backfill, the two audio     *)
(* schedulers and the final assembly of the audio directory.               *)
(*                                                                         *)
(* Text is a sequence of tokens.  A token is the double quote, one blank,  *)
(* a word (a maximal run of \w characters), a punctuation mark or a        *)
(* non-ASCII character; the regular expressions of the source only         *)
(* distinguish these classes.  A pitch factor is written in hundredths     *)
(* (1.0 is 100), a duration in milliseconds.                               *)
(***************************************************************************)
EXTENDS Integers, Sequences, FiniteSets, TLC

VARIABLES
    speakers,               \* SpeakerManager.speakers: a list of speaker records
    superbook,              \* SpeakerManager.superbook: a list of entries
    pc,                     \* where the driver is
    line_no,                \* alternation: the number of lines the loop has taken
    named_speaker,          \* process_text_lines: the current line's named speaker
    gender,                 \* process_text_lines: the current line's gender
    line_parts,             \* process_text_lines: the current line's parts not yet processed
    last_quoted_speaker,    \* process_text_lines: the last speaker of quoted dialogue
    current_speaker_index,  \* alternation: which unnamed speaker is active
    last_call,              \* the last operation called on the manager, with its arguments
    audio,                  \* the directory ./audio: file name -> content
    engine,                 \* the TTS and librosa collaborators: text -> what they do with it
    use_multithreading,     \* main: the answer to the prompt
    task_pc,                \* concurrent scheduler: where each submitted process_entry is
    seq_index,              \* sequential scheduler: the index of the last entry taken
    combined                \* combine_audio_files: the files visited and the exported length

attribution_vars == <<speakers, superbook, line_no, named_speaker, gender, line_parts,
                      last_quoted_speaker, current_speaker_index, last_call>>
audio_vars == <<audio, engine, use_multithreading, task_pc, seq_index, combined>>
vars == <<pc, attribution_vars, audio_vars>>

None == "None"
EmptyDirectory == [n \in {} |-> None]
NotCombined == [order |-> <<>>, ms |-> -1]

----------------------------------------------------------------------------
(* Bounds of the model *)

MaxBook == 3
\* The entries of a superbook handed to the schedulers
MaxEntries == 3
\* The worker threads of the executor
PoolSize == 2
\* The entries of a long superbook
LargeBook == 100
\* The tokens of a line handed to split_narration_dialogue
MaxLineLen == 5

----------------------------------------------------------------------------
(* Text *)

QUOTE == "\""
SPACE == " "
NonAscii == {"<U+201C>", "<U+201D>"}
Words == {"Meg", "Tom", "Narrator", "said", "whispered", "he", "she", "She", "go", "Hi",
          "It", "rained", "to", "I", "know", "asked", "why"}
IsWord(t) == t \in Words

\* str.strip(): the text without its leading and trailing blanks
RECURSIVE strip(_)
strip(text) ==
    IF text = <<>> THEN <<>>
    ELSE IF Head(text) = SPACE THEN strip(Tail(text))
    ELSE IF text[Len(text)] = SPACE THEN strip(SubSeq(text, 1, Len(text) - 1))
    ELSE text

\* clean_text: the text without its non-ASCII characters
clean_text(text) == SelectSeq(text, LAMBDA t : t \notin NonAscii)

\* The least index >= from of a double quote in text, Len(text) + 1 when there is none
RECURSIVE NextQuote(_, _)
NextQuote(text, from) ==
    IF from > Len(text) THEN Len(text) + 1
    ELSE IF text[from] = QUOTE THEN from
    ELSE NextQuote(text, from + 1)

\* A match whose dialogue is put before its narration
PartsOf_DialogueFirst(narration, dialogue) ==
    (IF strip(dialogue) # <<>>
        THEN <<[type |-> "dialogue", text |-> strip(dialogue)]>> ELSE <<>>)
    \o (IF strip(narration) # <<>>
        THEN <<[type |-> "narration", text |-> strip(narration)]>> ELSE <<>>)

\* What one match of the pattern contributes: the narration, then the dialogue
PartsOf(narration, dialogue) ==
    (IF strip(narration) # <<>>
        THEN <<[type |-> "narration", text |-> strip(narration)]>> ELSE <<>>)
    \o (IF strip(dialogue) # <<>>
        THEN <<[type |-> "dialogue", text |-> strip(dialogue)]>> ELSE <<>>)

\* re.findall of ([^"]*)(?:"([^"]*)")? from position pos on: a run without
\* quotes, then a quoted run when the quote is closed; an empty match moves
\* the scan one character on.
RECURSIVE FindAllParts(_, _)
FindAllParts(line, pos) ==
    IF pos > Len(line) THEN <<>>
    ELSE LET open  == NextQuote(line, pos)
             close == NextQuote(line, open + 1)
             narration == SubSeq(line, pos, open - 1)
         IN  IF open <= Len(line) /\ close <= Len(line)
             THEN PartsOf(narration, SubSeq(line, open + 1, close - 1))
                  \o FindAllParts(line, close + 1)
             ELSE PartsOf(narration, <<>>)
                  \o FindAllParts(line, IF open = pos THEN pos + 1 ELSE open)

split_narration_dialogue(line) == FindAllParts(line, 1)

AttributionVerbs == {"said", "asked", "replied", "shouted", "whispered", "added"}

\* Whether \b(verb) (\w+) matches at token i of text
AttributionAt(text, i) ==
    /\ text[i] \in AttributionVerbs
    /\ (i = 1 \/ ~IsWord(text[i - 1]))
    /\ i + 2 <= Len(text)
    /\ text[i + 1] = SPACE
    /\ IsWord(text[i + 2])

\* detect_attribution: group 2 of the leftmost match, None without a match
detect_attribution(text) ==
    LET hits == {i \in 1..Len(text) : AttributionAt(text, i)}
    IN  IF hits = {} THEN None
        ELSE text[(CHOOSE i \in hits : \A j \in hits : i <= j) + 2]


----------------------------------------------------------------------------
(* The NLP annotator: nlp(line) is a collaborator, so every input line comes *)
(* with the annotation the annotator gives its cleaned text: the entity      *)
(* spans (label, text) and the tokens (text, lower_, pos_, dep_).            *)

Lower(w) ==
    CASE w = "She" -> "she"
      [] w = "Meg" -> "meg"
      [] w = "Tom" -> "tom"
      [] w = "Narrator" -> "narrator"
      [] w = "Hi" -> "hi"
      [] w = "It" -> "it"
      [] w = "I" -> "i"
      [] OTHER -> w

Tok(text, pos, dep) == [text |-> text, lower |-> Lower(text), pos |-> pos, dep |-> dep]
Person(text) == [label |-> "PERSON", text |-> text]

\* Meg said, "go."
LineMegSaid ==
    [line |-> <<"Meg", SPACE, "said", ",", SPACE, QUOTE, "go", ".", QUOTE>>,
     doc  |-> [ents |-> <<Person("Meg")>>,
               tokens |-> <<Tok("Meg", "PROPN", "nsubj"), Tok("said", "VERB", "ROOT"),
                            Tok("go", "VERB", "ccomp")>>]]
\* "I know," he whispered.
LineHeWhispered ==
    [line |-> <<QUOTE, "I", SPACE, "know", ",", QUOTE, SPACE, "he", SPACE, "whispered", ".">>,
     doc  |-> [ents |-> <<>>,
               tokens |-> <<Tok("I", "PRON", "nsubj"), Tok("know", "VERB", "ccomp"),
                            Tok("he", "PRON", "nsubj"), Tok("whispered", "VERB", "ROOT")>>]]
\* "Hi," said Meg.      (Meg tagged as the proper-noun subject, no entity)
LineSaidMeg ==
    [line |-> <<QUOTE, "Hi", ",", QUOTE, SPACE, "said", SPACE, "Meg", ".">>,
     doc  |-> [ents |-> <<>>,
               tokens |-> <<Tok("Hi", "INTJ", "ccomp"), Tok("said", "VERB", "ROOT"),
                            Tok("Meg", "PROPN", "nsubj")>>]]
\* "Hi," said Meg.      (the annotator finds no speaker)
LineSaidMegMissed ==
    [line |-> <<QUOTE, "Hi", ",", QUOTE, SPACE, "said", SPACE, "Meg", ".">>,
     doc  |-> [ents |-> <<>>,
               tokens |-> <<Tok("Hi", "INTJ", "ccomp"), Tok("said", "VERB", "ROOT"),
                            Tok("Meg", "NOUN", "dobj")>>]]
\* "go," said he to Meg.
LineSaidHeToMeg ==
    [line |-> <<QUOTE, "go", ",", QUOTE, SPACE, "said", SPACE, "he", SPACE, "to", SPACE,
                "Meg", ".">>,
     doc  |-> [ents |-> <<Person("Meg")>>,
               tokens |-> <<Tok("go", "VERB", "ccomp"), Tok("said", "VERB", "ROOT"),
                            Tok("he", "PRON", "nsubj"), Tok("to", "ADP", "prep"),
                            Tok("Meg", "PROPN", "pobj")>>]]
\* She asked Meg "why"
LineSheAsked ==
    [line |-> <<"She", SPACE, "asked", SPACE, "Meg", SPACE, QUOTE, "why", QUOTE>>,
     doc  |-> [ents |-> <<Person("Meg")>>,
               tokens |-> <<Tok("She", "PRON", "nsubj"), Tok("asked", "VERB", "ROOT"),
                            Tok("Meg", "PROPN", "dobj"), Tok("why", "SCONJ", "ccomp")>>]]
\* It rained.
LineRained ==
    [line |-> <<"It", SPACE, "rained", ".">>,
     doc  |-> [ents |-> <<>>,
               tokens |-> <<Tok("It", "PRON", "nsubj"), Tok("rained", "VERB", "ROOT")>>]]
\* a blank line
LineBlank ==
    [line |-> <<SPACE>>, doc |-> [ents |-> <<>>, tokens |-> <<>>]]
\* Meg said "go        (the quote is never closed)
LineOpenQuote ==
    [line |-> <<"Meg", SPACE, "said", SPACE, QUOTE, "go">>,
     doc  |-> [ents |-> <<Person("Meg")>>,
               tokens |-> <<Tok("Meg", "PROPN", "nsubj"), Tok("said", "VERB", "ROOT"),
                            Tok("go", "VERB", "ccomp")>>]]
\* <U+201C>Hi<U+201D> said Tom      (typographic quotes, which clean_text removes)
LineCurlyQuotes ==
    [line |-> <<"<U+201C>", "Hi", "<U+201D>", SPACE, "said", SPACE, "Tom">>,
     doc  |-> [ents |-> <<Person("Tom")>>,
               tokens |-> <<Tok("Hi", "INTJ", "ccomp"), Tok("said", "VERB", "ROOT"),
                            Tok("Tom", "PROPN", "nsubj")>>]]
\* Narrator said "go"
LineNarratorSaid ==
    [line |-> <<"Narrator", SPACE, "said", SPACE, QUOTE, "go", QUOTE>>,
     doc  |-> [ents |-> <<>>,
               tokens |-> <<Tok("Narrator", "PROPN", "nsubj"), Tok("said", "VERB", "ROOT"),
                            Tok("go", "VERB", "ccomp")>>]]

\* The lines a document is made of
InputLines ==
    {LineMegSaid, LineHeWhispered, LineSaidMegMissed, LineSaidHeToMeg, LineBlank}

\* The least element of a non-empty set of indices
First(S) == CHOOSE i \in S : \A j \in S : i <= j

\* get_named_speaker: the first PERSON entity, else the first proper noun that
\* is a subject or an attribute, else None
get_named_speaker(doc) ==
    LET persons == {i \in 1..Len(doc.ents) : doc.ents[i].label = "PERSON"}
        propns  == {i \in 1..Len(doc.tokens) :
                       /\ doc.tokens[i].pos = "PROPN"
                       /\ doc.tokens[i].dep \in {"nsubj", "attr"}}
    IN  IF persons # {} THEN doc.ents[First(persons)].text
        ELSE IF propns # {} THEN doc.tokens[First(propns)].text
        ELSE None

pronoun_map(w) ==
    CASE w \in {"he", "him", "his"} -> "male"
      [] w \in {"she", "her", "hers"} -> "female"
      [] w = "they" -> "unknown"

\* infer_gender_from_pronouns: the gender of the first mapped pronoun
infer_gender_from_pronouns(doc) ==
    LET hits == {i \in 1..Len(doc.tokens) :
                    /\ doc.tokens[i].pos = "PRON"
                    /\ doc.tokens[i].lower \in {"he", "him", "his", "she", "her", "hers", "they"}}
    IN  IF hits = {} THEN "unknown" ELSE pronoun_map(doc.tokens[First(hits)].lower)

----------------------------------------------------------------------------
(* SpeakerManager *)

NarratorPitch == 100
\* random.uniform(*PITCH_FACTOR_RANGE): the draws the model tries
PITCH_FACTOR_RANGE == <<80, 130>>
PitchDraws == {PITCH_FACTOR_RANGE[1], 117}

Genders == {"unknown", "male", "female"}

\* SpeakerManager.__init__
InitSpeakers ==
    <<[name |-> "Narrator", gender |-> "unknown", number |-> "singular",
       pitch_factor |-> NarratorPitch]>>

\* A lookup that only looks at the head of the list
FindSpeaker_HeadOnly(spk, name) ==
    IF spk # <<>> /\ spk[1].name = name THEN 1 ELSE 0

\* next((i for s in speakers if s["name"] == name), None), as an index (0 for None)
FindSpeaker(spk, name) ==
    LET hits == {i \in 1..Len(spk) : spk[i].name = name}
    IN  IF hits = {} THEN 0 ELSE First(hits)

\* SpeakerManager.get_speaker
get_speaker(spk, name) ==
    IF FindSpeaker(spk, name) = 0 THEN None ELSE spk[FindSpeaker(spk, name)]

\* An update that also sets the pitch factor anew (to the upper end of the range)
UpdateExisting_Redraw(spk, i, g) ==
    IF spk[i].gender = "unknown" /\ g # "unknown"
    THEN [spk EXCEPT ![i].gender = g, ![i].pitch_factor = PITCH_FACTOR_RANGE[2]]
    ELSE [spk EXCEPT ![i].pitch_factor = PITCH_FACTOR_RANGE[2]]

\* add_speaker, when the name is already in the list
UpdateExisting(spk, i, g) ==
    IF spk[i].gender = "unknown" /\ g # "unknown"
    THEN [spk EXCEPT ![i].gender = g]
    ELSE spk

\* An add_speaker that replaces the record of a name it already holds
add_speaker_Replace(spk, name, g, number, draw) ==
    IF FindSpeaker(spk, name) # 0
    THEN [spk EXCEPT ![FindSpeaker(spk, name)] =
              [name |-> name, gender |-> g, number |-> number, pitch_factor |-> draw]]
    ELSE Append(spk, [name |-> name, gender |-> g, number |-> number,
                      pitch_factor |-> draw])

\* An add_speaker that updates an entry it finds and adds none
add_speaker_UpdateOnly(spk, name, g, number, draw) ==
    IF FindSpeaker(spk, name) # 0 THEN UpdateExisting(spk, FindSpeaker(spk, name), g)
    ELSE spk

\* SpeakerManager.add_speaker; draw is the value random.uniform returns
add_speaker(spk, name, g, number, draw) ==
    IF FindSpeaker(spk, name) # 0
    THEN UpdateExisting(spk, FindSpeaker(spk, name), g)
    ELSE Append(spk, [name |-> name, gender |-> g, number |-> number,
                      pitch_factor |-> draw])


----------------------------------------------------------------------------
(* The name-gender dataset: nd.search(name) and NameWrapper(...).gender.lower() *)
(* are a collaborator over a fixed dataset.  For each name: the gender it       *)
(* gives, "not found" for an empty search result, "error" for an exception.     *)

NameLookup(name) ==
    CASE name = "Meg" -> "female"
      [] name = "Tom" -> "male"
      [] name = "Unnamed Speaker 1" -> "error"
      [] OTHER -> "not found"

\* A backfill that does not ask whether the gender is still unknown
GuessGender_Overwrite(speaker) ==
    IF speaker.name # "Narrator" /\ NameLookup(speaker.name) \in {"male", "female"}
    THEN [speaker EXCEPT !.gender = NameLookup(speaker.name)]
    ELSE speaker

\* guess_genders_for_speakers, one speaker: a hit sets the gender
GuessGender(speaker) ==
    IF speaker.gender = "unknown" /\ speaker.name # "Narrator"
       /\ NameLookup(speaker.name) \in {"male", "female"}
    THEN [speaker EXCEPT !.gender = NameLookup(speaker.name)]
    ELSE speaker

\* guess_genders_for_speakers: the pass over the list
GuessAll(spk) == [i \in 1..Len(spk) |-> GuessGender(spk[i])]

----------------------------------------------------------------------------
(* The attribution phase: the operations on a SpeakerManager *)

\* The lines the alternation mode is given
AlternateLines == {LineMegSaid, LineBlank}

AddNames == {"Narrator", "Meg"}
Numbers == {"singular"}

Names(spk) == {spk[i].name : i \in 1..Len(spk)}

Init ==
    /\ speakers = InitSpeakers
    /\ superbook = <<>>
    /\ pc = "idle"
    /\ line_no = 0
    /\ named_speaker = None
    /\ gender = "unknown"
    /\ line_parts = <<>>
    /\ last_quoted_speaker = None
    /\ current_speaker_index = 0
    /\ last_call = [op |-> "init"]
    /\ audio = EmptyDirectory
    /\ engine = EmptyDirectory
    /\ use_multithreading = None
    /\ task_pc = <<>>
    /\ seq_index = 0
    /\ combined = NotCombined

ptl_vars == <<named_speaker, gender, line_parts, last_quoted_speaker>>

\* speaker_manager.add_speaker(name, gender, number)
AddSpeaker(name, g, number) ==
    /\ pc = "idle"
    /\ \E draw \in PitchDraws :
          speakers' = add_speaker(speakers, name, g, number, draw)
    /\ last_call' = [op |-> "add_speaker", name |-> name,
                     existing |-> FindSpeaker(speakers, name) # 0]
    /\ UNCHANGED <<superbook, pc, line_no, ptl_vars, current_speaker_index>>
    /\ UNCHANGED audio_vars

\* speaker_manager.get_speaker(name)
GetSpeaker(name) ==
    /\ pc = "idle"
    /\ UNCHANGED vars

\* guess_genders_for_speakers(speaker_manager)
GuessGenders ==
    /\ pc = "idle"
    /\ speakers' = GuessAll(speakers)
    /\ last_call' = [op |-> "guess_genders_for_speakers"]
    /\ UNCHANGED <<superbook, pc, line_no, ptl_vars, current_speaker_index>>
    /\ UNCHANGED audio_vars

unnamed_speakers == <<"Unnamed Speaker 1", "Unnamed Speaker 2">>

\* alternate_speakers_without_person_entities(lines, speaker_manager): the
\* call, up to the loop
Alternate ==
    /\ pc = "idle"
    /\ \E d1, d2 \in PitchDraws :
          speakers' = add_speaker(
                          add_speaker(speakers, "Unnamed Speaker 1", "unknown", "singular", d1),
                          "Unnamed Speaker 2", "unknown", "singular", d2)
    /\ current_speaker_index' = 0
    /\ line_no' = 0
    /\ pc' = "alternate"
    /\ last_call' = [op |-> "alternate_speakers_without_person_entities"]
    /\ UNCHANGED <<superbook, ptl_vars>>
    /\ UNCHANGED audio_vars

\* An alternation that never leaves the first unnamed speaker
AlternateSpeaker_First(k) == unnamed_speakers[1]

\* The speaker the alternation credits a line to
AlternateSpeaker(k) == unnamed_speakers[k + 1]

\* alternate_speakers_without_person_entities, one turn of the loop
AlternateLine(l) ==
    /\ pc = "alternate"
    /\ Len(superbook) < MaxBook
    /\ superbook' = Append(superbook, [speaker |-> AlternateSpeaker(current_speaker_index),
                                       text |-> strip(l.line)])
    /\ current_speaker_index' = (current_speaker_index + 1) % 2
    /\ line_no' = line_no + 1
    /\ UNCHANGED <<speakers, pc, ptl_vars, last_call>>
    /\ UNCHANGED audio_vars

\* alternate_speakers_without_person_entities returns: its locals are gone
AlternateReturn ==
    /\ pc = "alternate"
    /\ pc' = "idle"
    /\ line_no' = 0
    /\ current_speaker_index' = 0
    /\ UNCHANGED <<speakers, superbook, ptl_vars, last_call>>
    /\ UNCHANGED audio_vars

\* process_text_lines(lines, speaker_manager): the call, up to the loop
ProcessTextLines ==
    /\ pc = "idle"
    /\ pc' = "line"
    /\ last_quoted_speaker' = None
    /\ last_call' = [op |-> "process_text_lines"]
    /\ UNCHANGED <<speakers, superbook, line_no, named_speaker, gender, line_parts,
                   current_speaker_index>>
    /\ UNCHANGED audio_vars

\* process_text_lines, the head of the loop over the lines: the line is
\* cleaned, annotated and split
NextLine(l) ==
    /\ pc = "line"
    /\ Len(superbook) < MaxBook
    /\ LET line == clean_text(l.line)
           line_doc == l.doc
           named == get_named_speaker(line_doc)
           parts == split_narration_dialogue(line)
       IN  /\ named_speaker' = named
           /\ gender' = IF named # None THEN infer_gender_from_pronouns(line_doc)
                        ELSE "unknown"
           /\ line_parts' = parts
           /\ pc' = IF parts = <<>> THEN "line" ELSE "part"
    /\ UNCHANGED <<speakers, superbook, line_no, last_quoted_speaker, current_speaker_index,
                   last_call>>
    /\ UNCHANGED audio_vars

\* process_text_lines, the head of the loop for a line on which nlp(line) or
\* the attribution raises: nothing in process_text_lines or in main catches
\* the exception, so the call and the program end with it
NextLineRaises ==
    /\ pc = "line"
    /\ pc' = "raised"
    /\ UNCHANGED <<attribution_vars, audio_vars>>

\* A choice that prefers the last quoted speaker to the line's named speaker
DialogueSpeaker_ContextFirst(named, last) ==
    IF last # None THEN last
    ELSE IF named # None THEN named
    ELSE "Unnamed Speaker 1"

\* The speaker a dialogue part is credited to
DialogueSpeaker(named, last) ==
    IF named # None THEN named
    ELSE IF last # None THEN last
    ELSE "Unnamed Speaker 1"

\* process_text_lines, a dialogue part
DialoguePart(part) ==
    /\ part.type = "dialogue"
    /\ IF named_speaker # None
       THEN /\ \E draw \in PitchDraws :
                  speakers' = add_speaker(speakers, named_speaker, gender, "singular", draw)
            /\ last_quoted_speaker' = named_speaker
       ELSE UNCHANGED <<speakers, last_quoted_speaker>>
    /\ superbook' = Append(superbook,
                           [speaker |-> DialogueSpeaker(named_speaker, last_quoted_speaker),
                            text |-> part.text])

\* A choice that credits a narration part to the speaker detected in it
NarrationSpeaker_Detected(attribution) ==
    IF attribution # None THEN attribution ELSE "Narrator"

\* The speaker a narration part is credited to
NarrationSpeaker(attribution) == "Narrator"

\* process_text_lines, a narration part
NarrationPart(part) ==
    /\ part.type # "dialogue"
    /\ LET attribution == detect_attribution(part.text)
       IN  /\ IF attribution # None
              THEN /\ \E draw \in PitchDraws :
                         speakers' = add_speaker(speakers, attribution, "unknown",
                                                 "singular", draw)
                   /\ last_quoted_speaker' = attribution
              ELSE UNCHANGED <<speakers, last_quoted_speaker>>
           /\ superbook' = Append(superbook, [speaker |-> NarrationSpeaker(attribution),
                                              text |-> part.text])

\* process_text_lines, one turn of the loop over the line's parts
NextPart ==
    /\ pc = "part"
    /\ line_parts # <<>>
    /\ \/ DialoguePart(Head(line_parts))
       \/ NarrationPart(Head(line_parts))
    /\ line_parts' = Tail(line_parts)
    /\ pc' = IF Tail(line_parts) = <<>> THEN "line" ELSE "part"
    /\ UNCHANGED <<line_no, named_speaker, gender, current_speaker_index, last_call>>
    /\ UNCHANGED audio_vars

\* process_text_lines returns: its locals are gone
Return ==
    /\ pc = "line"
    /\ pc' = "idle"
    /\ named_speaker' = None
    /\ gender' = "unknown"
    /\ last_quoted_speaker' = None
    /\ UNCHANGED <<speakers, superbook, line_no, line_parts, current_speaker_index, last_call>>
    /\ UNCHANGED audio_vars

Next ==
    \/ \E name \in AddNames, g \in Genders, number \in Numbers : AddSpeaker(name, g, number)
    \/ \E name \in AddNames : GetSpeaker(name)
    \/ GuessGenders
    \/ Alternate
    \/ \E l \in AlternateLines : AlternateLine(l)
    \/ AlternateReturn
    \/ ProcessTextLines
    \/ \E l \in InputLines : NextLine(l)
    \/ NextPart
    \/ Return

Spec == Init /\ [][Next]_vars

\* process_text_lines on documents with lines whose annotation raises
ErrorNext ==
    \/ ProcessTextLines
    \/ \E l \in InputLines : NextLine(l)
    \/ NextLineRaises
    \/ NextPart
    \/ Return

ErrorSpec == Init /\ [][ErrorNext]_vars

-----------------------------------------------------------------------------
(* File names *)

\* The characters that occur in the names of the audio directory, in the
\* order of their code points (Python compares strings by code point)
AsciiOrder ==
    <<" ", ".", "0", "1", "2", "3", "4", "5", "6", "7", "8", "9",
      "M", "N", "S", "U", "_",
      "a", "d", "e", "g", "k", "m", "n", "o", "p", "r", "t", "v", "w">>
ord(c) == CHOOSE i \in 1..Len(AsciiOrder) : AsciiOrder[i] = c

Digits == <<"0", "1", "2", "3", "4", "5", "6", "7", "8", "9">>

\* str(n) of a natural number: its decimal digits
RECURSIVE str(_)
str(n) == IF n < 10 THEN <<Digits[n + 1]>>
          ELSE str(n \div 10) \o <<Digits[(n % 10) + 1]>>

\* s.zfill(width): zeros on the left up to the width, never a cut
RECURSIVE zfill(_, _)
zfill(s, width) == IF Len(s) >= width THEN s ELSE zfill(<<"0">> \o s, width)

\* The characters of a speaker's name
Chars(name) ==
    CASE name = "Narrator" -> <<"N", "a", "r", "r", "a", "t", "o", "r">>
      [] name = "Meg" -> <<"M", "e", "g">>
      [] name = "Unnamed Speaker 1" ->
            <<"U", "n", "n", "a", "m", "e", "d", " ",
              "S", "p", "e", "a", "k", "e", "r", " ", "1">>

Wav == <<".", "w", "a", "v">>

\* f"audio/temp_{index}.wav", as the name within the directory
temp_audio_path(index) == <<"t", "e", "m", "p", "_">> \o str(index) \o Wav

\* f"audio/{prefix}_{speaker_name}.wav", as the name within the directory
output_audio_path(prefix, speaker_name) ==
    prefix \o <<"_">> \o Chars(speaker_name) \o Wav

\* process_entry: the index is padded to two digits
MultithreadingPrefix(index) == zfill(str(index), 2)

\* single thread: the index is padded to the digits of the number of entries
SingleThreadPrefix(index, total_entries) ==
    LET num_digits == Len(str(total_entries))
    IN  zfill(str(index), num_digits)

endswith(s, suffix) ==
    /\ Len(s) >= Len(suffix)
    /\ SubSeq(s, Len(s) - Len(suffix) + 1, Len(s)) = suffix

\* a < b for two strings: at the first position where they differ a has the
\* smaller character, or a is a proper prefix of b
LexLess(a, b) ==
    \E k \in 1..(Len(b)) :
        /\ \A j \in 1..(k - 1) : j <= Len(a) /\ a[j] = b[j]
        /\ \/ k = Len(a) + 1
           \/ k <= Len(a) /\ ord(a[k]) < ord(b[k])

\* sorted(names): the name in place k has k - 1 names below it
sorted(names) ==
    [k \in 1..Cardinality(names) |->
        CHOOSE x \in names : Cardinality({y \in names : LexLess(y, x)}) = k - 1]

-----------------------------------------------------------------------------
(* The audio directory and the collaborators *)

\* Durations are in milliseconds
MIN_AUDIO_DURATION == 500
DELAY_BETWEEN_LINES_MS == 300

\* pitch_factor of a file whose samples were written as the TTS made them
Unshifted == 0

\* What tts_to_file and the librosa calls do with a text: the TTS fails or
\* makes a waveform of some length, and the shift of it fails or not.  The
\* collaborators are deterministic: the same text, the same outcome.
Durations == {300, 900}
Outcomes ==
    {[tts |-> "error", ms |-> 0, shift |-> "ok"]}
    \cup {[tts |-> "ok", ms |-> d, shift |-> s] : d \in Durations, s \in {"ok", "error"}}

TextGo == <<"go", ".">>
TextRained == <<"It", SPACE, "rained", ".">>
AudioTexts == {TextGo, TextRained}

\* A file with these samples (the waveform of a text), shifted or not
File(text, ms, pitch_factor) ==
    [y |-> text, ms |-> ms, pitch_factor |-> pitch_factor, readable |-> TRUE]

\* Writing a file creates it or replaces its content
write(dir, path, content) ==
    [n \in DOMAIN dir \cup {path} |-> IF n = path THEN content ELSE dir[n]]

\* os.remove(path) under os.path.exists(path)
remove(dir, path) == [n \in DOMAIN dir \ {path} |-> dir[n]]

\* tts_model.tts_to_file(text, temp_audio_path): the file is written unless
\* the TTS raises
tts_to_file(dir, eng, text, path) ==
    IF eng[text].tts = "ok" THEN write(dir, path, File(text, eng[text].ms, Unshifted))
    ELSE dir

\* apply_pitch_shift_librosa(y, sr, pitch_factor, output_path): the shifted
\* samples are written, or the error is logged and nothing is written
apply_pitch_shift_librosa(dir, eng, wave, pitch_factor, output_path) ==
    IF eng[wave.y].shift = "ok"
    THEN write(dir, output_path, File(wave.y, wave.ms, pitch_factor))
    ELSE dir

-----------------------------------------------------------------------------
(* The two schedulers and the assembly *)

\* One turn of the loop of generate_audio_with_librosa_single_thread
single_thread_entry(dir, book, spk, eng, index) ==
    LET speaker_name == book[index].speaker
        text == book[index].text
        speaker_data == get_speaker(spk, speaker_name)
        temp == temp_audio_path(index)
        output == output_audio_path(SingleThreadPrefix(index, Len(book)), speaker_name)
        made == tts_to_file(dir, eng, text, temp)
    IN  IF FindSpeaker(spk, speaker_name) = 0 THEN dir
        ELSE IF eng[text].tts # "ok" THEN dir
        ELSE IF made[temp].ms < MIN_AUDIO_DURATION THEN write(made, output, made[temp])
        ELSE remove(apply_pitch_shift_librosa(made, eng, made[temp],
                                              speaker_data.pitch_factor, output), temp)

\* The directory after the turns index, index + 1, ... of the loop
RECURSIVE SingleThreadFrom(_, _, _, _, _)
SingleThreadFrom(dir, book, spk, eng, index) ==
    IF index > Len(book) THEN dir
    ELSE SingleThreadFrom(single_thread_entry(dir, book, spk, eng, index),
                          book, spk, eng, index + 1)

generate_audio_with_librosa_single_thread(dir, book, spk, eng) ==
    SingleThreadFrom(dir, book, spk, eng, 1)

\* The length of what combine_audio_files exports: each file, then the silence
RECURSIVE CombinedLength(_, _)
CombinedLength(dir, order) ==
    IF order = <<>> THEN 0
    ELSE dir[Head(order)].ms + DELAY_BETWEEN_LINES_MS + CombinedLength(dir, Tail(order))

\* The registry after the attribution of a text that names Meg
AudioSpeakers == add_speaker(InitSpeakers, "Meg", "female", "singular", 117)

\* The superbooks the schedulers are run on
Entries ==
    {[speaker |-> "Narrator", text |-> TextRained],
     [speaker |-> "Meg", text |-> TextGo],
     [speaker |-> "Unnamed Speaker 1", text |-> TextGo]}
Books == UNION {[1..n -> Entries] : n \in 0..MaxEntries}
UniformBook(n) == [i \in 1..n |-> [speaker |-> "Narrator", text |-> TextRained]]

\* What a previous run left in ./audio
StaleDirectory ==
    write(EmptyDirectory, output_audio_path(<<"7">>, "Meg"), File(TextGo, 900, 117))

main_vars == <<speakers, superbook, line_no, named_speaker, gender, line_parts,
               last_quoted_speaker, current_speaker_index, last_call, engine>>

\* main, before the audio: the directory, and a text already attributed
MainInit ==
    /\ pc = "main"
    /\ speakers = AudioSpeakers
    /\ line_no = 0
    /\ named_speaker = None
    /\ gender = "unknown"
    /\ line_parts = <<>>
    /\ last_quoted_speaker = None
    /\ current_speaker_index = 0
    /\ last_call = [op |-> "init"]
    /\ use_multithreading = None
    /\ task_pc = <<>>
    /\ seq_index = 0
    /\ combined = NotCombined

AudioInit ==
    /\ MainInit
    /\ superbook \in Books
    /\ engine \in [AudioTexts -> Outcomes]
    /\ audio \in {EmptyDirectory, StaleDirectory}

\* main: ./audio is made, or cleared of its files
ClearAudioDirectory ==
    /\ pc = "main"
    /\ audio' = EmptyDirectory
    /\ pc' = "prompt"
    /\ UNCHANGED <<main_vars, use_multithreading, task_pc, seq_index, combined>>

\* main: the answer is yes; generate_audio_with_librosa_multithreading
\* submits process_entry for every entry, in the order of the superbook (a
\* task is queued from the start: one not yet submitted can no more run than
\* one that waits for a worker)
Multithreading ==
    /\ pc = "prompt"
    /\ use_multithreading' = "yes"
    /\ task_pc' = [i \in 1..Len(superbook) |-> "queued"]
    /\ pc' = "executor"
    /\ UNCHANGED <<main_vars, audio, seq_index, combined>>

Running == {i \in DOMAIN task_pc : task_pc[i] \in {"tts", "shift", "cleanup"}}

\* A free worker takes the oldest queued task; process_entry looks the speaker
\* up and returns if there is none
ProcessEntryStart(i) ==
    /\ pc = "executor"
    /\ task_pc[i] = "queued"
    /\ \A j \in 1..(i - 1) : task_pc[j] # "queued"
    /\ Cardinality(Running) < PoolSize
    /\ task_pc' = [task_pc EXCEPT ![i] =
                      IF FindSpeaker(speakers, superbook[i].speaker) = 0
                      THEN "done" ELSE "tts"]
    /\ UNCHANGED <<pc, main_vars, audio, use_multithreading, seq_index, combined>>

\* process_entry: tts_to_file; an exception ends the task
ProcessEntryTts(i) ==
    /\ pc = "executor"
    /\ task_pc[i] = "tts"
    /\ audio' = tts_to_file(audio, engine, superbook[i].text, temp_audio_path(i))
    /\ task_pc' = [task_pc EXCEPT ![i] =
                      IF engine[superbook[i].text].tts = "ok" THEN "shift" ELSE "done"]
    /\ UNCHANGED <<pc, main_vars, use_multithreading, seq_index, combined>>

\* process_entry: librosa.load of the temporary file, apply_pitch_shift_librosa
ProcessEntryShift(i) ==
    /\ pc = "executor"
    /\ task_pc[i] = "shift"
    /\ LET speaker_name == superbook[i].speaker
           speaker_data == get_speaker(speakers, speaker_name)
           output == output_audio_path(MultithreadingPrefix(i), speaker_name)
       IN  audio' = apply_pitch_shift_librosa(audio, engine, audio[temp_audio_path(i)],
                                               speaker_data.pitch_factor, output)
    /\ task_pc' = [task_pc EXCEPT ![i] = "cleanup"]
    /\ UNCHANGED <<pc, main_vars, use_multithreading, seq_index, combined>>

\* process_entry: the temporary file is removed
ProcessEntryCleanup(i) ==
    /\ pc = "executor"
    /\ task_pc[i] = "cleanup"
    /\ audio' = remove(audio, temp_audio_path(i))
    /\ task_pc' = [task_pc EXCEPT ![i] = "done"]
    /\ UNCHANGED <<pc, main_vars, use_multithreading, seq_index, combined>>

\* An exit of the with block that does not wait for the tasks
Shutdown_NoWait ==
    /\ pc = "executor"
    /\ pc' = "generated"
    /\ UNCHANGED <<main_vars, audio_vars>>

\* The end of the with block: the executor waits for its tasks
Shutdown ==
    /\ pc = "executor"
    /\ \A i \in DOMAIN task_pc : task_pc[i] = "done"
    /\ pc' = "generated"
    /\ UNCHANGED <<main_vars, audio_vars>>

\* main: any other answer; generate_audio_with_librosa_single_thread
SingleThread ==
    /\ pc = "prompt"
    /\ use_multithreading' = "no"
    /\ seq_index' = 0
    /\ pc' = "single"
    /\ UNCHANGED <<main_vars, audio, task_pc, combined>>

\* A loop that an entry's exception ends
SingleThreadEntry_Abort ==
    /\ pc = "single"
    /\ seq_index < Len(superbook)
    /\ LET index == seq_index + 1
           raised == /\ FindSpeaker(speakers, superbook[index].speaker) # 0
                     /\ engine[superbook[index].text].tts # "ok"
       IN  /\ seq_index' = IF raised THEN Len(superbook) ELSE index
           /\ audio' = single_thread_entry(audio, superbook, speakers, engine, index)
    /\ UNCHANGED <<pc, main_vars, use_multithreading, task_pc, combined>>

\* One turn of the loop
SingleThreadEntry ==
    /\ pc = "single"
    /\ seq_index < Len(superbook)
    /\ seq_index' = seq_index + 1
    /\ audio' = single_thread_entry(audio, superbook, speakers, engine, seq_index + 1)
    /\ UNCHANGED <<pc, main_vars, use_multithreading, task_pc, combined>>

SingleThreadReturn ==
    /\ pc = "single"
    /\ seq_index = Len(superbook)
    /\ pc' = "generated"
    /\ UNCHANGED <<main_vars, audio_vars>>

\* The file system or another program damages a file of ./audio between
\* the audio generation and the assembly: it is no longer a readable WAV
Damage(n) ==
    /\ pc = "generated"
    /\ \A m \in DOMAIN audio : audio[m].readable
    /\ audio' = [audio EXCEPT ![n].readable = FALSE]
    /\ UNCHANGED <<pc, main_vars, use_multithreading, task_pc, seq_index, combined>>

\* combine_audio_files("./audio", ...): AudioSegment.from_wav raises on a
\* file it cannot read, nothing catches it, and nothing is exported
Combine ==
    /\ pc = "generated"
    /\ LET order == sorted({n \in DOMAIN audio : endswith(n, Wav)})
       IN  IF \A k \in 1..Len(order) : audio[order[k]].readable
           THEN /\ combined' = [order |-> order, ms |-> CombinedLength(audio, order)]
                /\ pc' = "done"
           ELSE /\ combined' = combined
                /\ pc' = "raised"
    /\ UNCHANGED <<main_vars, audio, use_multithreading, task_pc, seq_index>>

AudioNext ==
    \/ ClearAudioDirectory
    \/ Multithreading
    \/ \E i \in DOMAIN task_pc : ProcessEntryStart(i)
    \/ \E i \in DOMAIN task_pc : ProcessEntryTts(i)
    \/ \E i \in DOMAIN task_pc : ProcessEntryShift(i)
    \/ \E i \in DOMAIN task_pc : ProcessEntryCleanup(i)
    \/ Shutdown
    \/ SingleThread
    \/ SingleThreadEntry
    \/ SingleThreadReturn
    \/ Combine

AudioSpec == AudioInit /\ [][AudioNext]_vars

\* A book of so many entries that the index takes three digits
NamingInit ==
    /\ MainInit
    /\ superbook = UniformBook(LargeBook)
    /\ engine = [t \in AudioTexts |-> [tts |-> "ok", ms |-> 900, shift |-> "ok"]]
    /\ audio = EmptyDirectory

NamingSpec == NamingInit /\ [][AudioNext]_vars

\* The audio phase in an environment that damages files
FaultNext ==
    \/ AudioNext
    \/ \E n \in DOMAIN audio : Damage(n)

FaultSpec == AudioInit /\ [][FaultNext]_vars

----------------------------------------------------------------------------
(* The speaker registry: claims C1 to C4 *)

Gender(spk, name) == spk[FindSpeaker(spk, name)].gender
Pitch(spk, name) == spk[FindSpeaker(spk, name)].pitch_factor
Registered(spk, name) == FindSpeaker(spk, name) # 0

\* C1: in every reachable state the speakers list holds an entry named
\* Narrator whose pitch_factor is exactly 1 (100 hundredths).
C1_NarratorPresent ==
    \E i \in 1..Len(speakers) :
        speakers[i].name = "Narrator" /\ speakers[i].pitch_factor = NarratorPitch

\* add_speaker has been called on Narrator, the attribution and the alternation
\* have run, and the backfill was the last operation
C1_Witness ==
    /\ pc = "idle"
    /\ last_call.op = "guess_genders_for_speakers"
    /\ {"he", "Unnamed Speaker 2"} \subseteq Names(speakers)
    /\ Gender(speakers, "Narrator") = "male"

\* C2: no two entries of the speakers list have the same name.
C2_UniqueNames ==
    \A i, j \in 1..Len(speakers) : i # j => speakers[i].name # speakers[j].name

\* add_speaker was just called with a name the list already held, behind other
\* entries
C2_Witness ==
    /\ last_call.op = "add_speaker"
    /\ last_call.existing
    /\ last_call.name = "Meg"
    /\ FindSpeaker(speakers, "Meg") > 2

\* C3: every step leaves every registered speaker registered, with the
\* pitch_factor it has.
C3_PitchFixed ==
    [][\A name \in Names(speakers) :
          /\ Registered(speakers', name)
          /\ Pitch(speakers', name) = Pitch(speakers, name)]_vars

\* add_speaker was just called for Meg, already registered with a drawn pitch
\* factor, and gave her a gender
C3_Witness ==
    /\ last_call.op = "add_speaker"
    /\ last_call.existing
    /\ last_call.name = "Meg"
    /\ Gender(speakers, "Meg") = "female"
    /\ Pitch(speakers, "Meg") = PITCH_FACTOR_RANGE[1]
    /\ superbook # <<>>

\* C4: a step changes a speaker's gender only from unknown to male or female;
\* a gender that is male or female stays.
C4_GenderOnlyUpgraded ==
    [][\A i \in 1..Len(speakers) :
          speakers'[i].gender # speakers[i].gender
             => /\ speakers[i].gender = "unknown"
                /\ speakers'[i].gender \in {"male", "female"}]_vars

\* The backfill has just run over Meg, whom the dataset calls female and the
\* text called male
C4_Witness ==
    /\ last_call.op = "guess_genders_for_speakers"
    /\ Registered(speakers, "Meg")
    /\ Gender(speakers, "Meg") = "male"
    /\ \E i \in 1..Len(superbook) : superbook[i].speaker = "Meg"

----------------------------------------------------------------------------
(* The attribution: claims C5 to C8 *)

\* C5: once process_text_lines has returned, the speaker of every superbook
\* entry is the name of a registered speaker.
C5_EntriesRegistered ==
    pc = "idle" =>
        \A i \in 1..Len(superbook) : Registered(speakers, superbook[i].speaker)

\* C6: a narration part appends exactly one entry, credited to Narrator, with
\* the part's text; without a detected attribution the registry and the last
\* quoted speaker stay as they are.
C6_NarrationToNarrator ==
    [][(pc = "part" /\ line_parts # <<>> /\ Head(line_parts).type = "narration")
          => /\ superbook' = Append(superbook, [speaker |-> "Narrator",
                                                text |-> Head(line_parts).text])
             /\ line_parts' = Tail(line_parts)
             /\ detect_attribution(Head(line_parts).text) = None
                   => UNCHANGED <<speakers, last_quoted_speaker>>]_vars

\* A narration part in which an attribution was detected has been credited to
\* Narrator
C6_Witness ==
    /\ pc \in {"line", "part"}
    /\ last_quoted_speaker = "he"
    /\ superbook # <<>>
    /\ superbook[Len(superbook)] =
           [speaker |-> "Narrator",
            text |-> <<"said", SPACE, "he", SPACE, "to", SPACE, "Meg", ".">>]

\* C7: a dialogue part is credited to the line's named speaker when there is
\* one (who is then registered and the last quoted speaker), else to the last
\* quoted speaker, else to Unnamed Speaker 1.
C7_DialogueSpeaker ==
    [][(pc = "part" /\ line_parts # <<>> /\ Head(line_parts).type = "dialogue")
          => /\ \/ /\ named_speaker # None
                   /\ superbook'[Len(superbook')].speaker = named_speaker
                   /\ Registered(speakers', named_speaker)
                   /\ last_quoted_speaker' = named_speaker
                \/ /\ named_speaker = None
                   /\ last_quoted_speaker # None
                   /\ superbook'[Len(superbook')].speaker = last_quoted_speaker
                   /\ last_quoted_speaker' = last_quoted_speaker
                \/ /\ named_speaker = None
                   /\ last_quoted_speaker = None
                   /\ superbook'[Len(superbook')].speaker = "Unnamed Speaker 1"
                   /\ last_quoted_speaker' = last_quoted_speaker
             /\ Len(superbook') = Len(superbook) + 1
             /\ SubSeq(superbook', 1, Len(superbook)) = superbook
             /\ superbook'[Len(superbook')].text = Head(line_parts).text]_vars

\* One call has credited a dialogue to its line's named speaker and a later
\* line's dialogue to the speaker carried over
C7_Witness ==
    /\ pc = "part"
    /\ Len(superbook) = 3
    /\ superbook[1].speaker = "Meg"
    /\ superbook[3] = [speaker |-> "he", text |-> <<"I", SPACE, "know", ",">>]

\* C8: the alternation registers the two unnamed speakers and no other, and
\* then appends one entry per line, credited to Unnamed Speaker 1 for an even
\* line (counted from 0) and to Unnamed Speaker 2 for an odd one.
C8_Alternation ==
    [][/\ (pc = "idle" /\ pc' = "alternate")
          => /\ Names(speakers') = Names(speakers) \cup {"Unnamed Speaker 1",
                                                          "Unnamed Speaker 2"}
             /\ superbook' = superbook
             /\ line_no' = 0
       /\ (pc = "alternate" /\ pc' = "alternate")
          => /\ Len(superbook') = Len(superbook) + 1
             /\ SubSeq(superbook', 1, Len(superbook)) = superbook
             /\ superbook'[Len(superbook')].speaker =
                   (IF line_no % 2 = 0 THEN "Unnamed Speaker 1" ELSE "Unnamed Speaker 2")
             /\ line_no' = line_no + 1
             /\ speakers' = speakers
       /\ (pc = "alternate" /\ pc' = "idle")
          => /\ superbook' = superbook
             /\ speakers' = speakers]_vars

\* The alternation has credited its second line, a blank one, to Unnamed
\* Speaker 2, in a registry that held another speaker
C8_Witness ==
    /\ pc = "alternate"
    /\ line_no = 2
    /\ Registered(speakers, "Meg")
    /\ superbook[Len(superbook)] = [speaker |-> "Unnamed Speaker 2", text |-> <<>>]

-----------------------------------------------------------------------------
(* The schedulers and the assembly: claims C9 and C10 *)

\* C9: when the concurrent scheduler has finished, whatever the order its
\* workers ran in, the audio directory holds the files, by name and by
\* content, that the sequential scheduler makes of the same superbook, the
\* same registry and the same collaborators.
C9_SameDirectory ==
    (pc = "generated" /\ use_multithreading = "yes")
        => audio = generate_audio_with_librosa_single_thread(
                       EmptyDirectory, superbook, speakers, engine)

\* The sequence index a per-entry output file was named after
RECURSIVE int(_)
int(digits) ==
    IF digits = <<>> THEN 0
    ELSE 10 * int(SubSeq(digits, 1, Len(digits) - 1))
         + (CHOOSE d \in 0..9 : Digits[d + 1] = digits[Len(digits)])
IsOutputFile(name) == \E d \in 1..Len(Digits) : name[1] = Digits[d]
IndexOf(name) ==
    LET k == CHOOSE j \in 1..Len(name) : name[j] = "_" /\ \A h \in 1..(j - 1) : name[h] # "_"
    IN  int(SubSeq(name, 1, k - 1))

\* C10: in both modes and for every number of entries, combine_audio_files
\* visits the per-entry output files in the order of their sequence index.
C10_AssemblyOrder ==
    pc = "done"
        => LET out == SelectSeq(combined.order, IsOutputFile)
           IN  \A i, j \in 1..Len(out) : i < j => IndexOf(out[i]) < IndexOf(out[j])
-----------------------------------------------------------------------------
(* The schedulers and the assembly: claims C11 to C14 *)

\* What the collaborators do in the runs checked for progress
FairOutcomes ==
    {[tts |-> "error", ms |-> 0, shift |-> "ok"],
     [tts |-> "ok", ms |-> 300, shift |-> "error"],
     [tts |-> "ok", ms |-> 900, shift |-> "ok"]}

FairAudioInit ==
    /\ MainInit
    /\ superbook \in Books
    /\ engine \in [AudioTexts -> FairOutcomes]
    /\ audio = EmptyDirectory

\* The runs in which a step that stays possible is taken in the end: the
\* main thread and the threads of the executor all make progress
FairAudioSpec == FairAudioInit /\ [][AudioNext]_vars /\ WF_vars(AudioNext)

\* C11: in the concurrent mode, whenever combine_audio_files can start or has
\* run, every entry of the superbook has a process_entry task and every task
\* has finished (completed, skipped or failed): none is queued or running.
C11_CombineAfterTasks ==
    (use_multithreading = "yes" /\ pc \in {"generated", "done"})
        => /\ Len(task_pc) = Len(superbook)
           /\ \A i \in DOMAIN task_pc : task_pc[i] = "done"

\* The concurrent scheduler ran on more entries than it has workers, and
\* combine_audio_files has read what they wrote
C11_Witness ==
    /\ use_multithreading = "yes"
    /\ pc = "done"
    /\ Len(task_pc) > PoolSize
    /\ Len(combined.order) = Len(task_pc)

\* The name of the output file of entry i in the mode of the run
OutputName(i) ==
    output_audio_path(IF use_multithreading = "yes" THEN MultithreadingPrefix(i)
                      ELSE SingleThreadPrefix(i, Len(superbook)),
                      superbook[i].speaker)

\* Entry i has a registered speaker, and its own TTS and pitch shift succeed
Succeeds(i) ==
    /\ FindSpeaker(speakers, superbook[i].speaker) # 0
    /\ engine[superbook[i].text].tts = "ok"
    /\ engine[superbook[i].text].shift = "ok"

\* Entry i is skipped or fails
Fails(i) ==
    \/ FindSpeaker(speakers, superbook[i].speaker) = 0
    \/ engine[superbook[i].text].tts # "ok"
    \/ engine[superbook[i].text].shift # "ok"

AllSucceedingWritten ==
    /\ pc \in {"generated", "done"}
    /\ \A i \in DOMAIN superbook : Succeeds(i) => OutputName(i) \in DOMAIN audio

RECURSIVE SumOfDurations(_, _)
SumOfDurations(dir, order) ==
    IF order = <<>> THEN 0 ELSE dir[Head(order)].ms + SumOfDurations(dir, Tail(order))

\* C13: when combine_audio_files has combined n > 0 files, the length of what
\* it exports is the sum of their lengths plus n - 1 times
\* DELAY_BETWEEN_LINES_MS: no silence after the last file.
C13_CombinedDuration ==
    (pc = "done" /\ combined.order # <<>>)
        => combined.ms = SumOfDurations(audio, combined.order)
                         + (Len(combined.order) - 1) * DELAY_BETWEEN_LINES_MS

\* C14: in both modes, when the scheduler has returned, the output file of
\* every entry whose waveform is shorter than MIN_AUDIO_DURATION holds the
\* samples as the TTS made them, not shifted.
C14_ShortUnmodified ==
    pc = "generated"
        => \A i \in DOMAIN superbook :
              LET text == superbook[i].text
              IN  (/\ FindSpeaker(speakers, superbook[i].speaker) # 0
                   /\ engine[text].tts = "ok"
                   /\ engine[text].ms < MIN_AUDIO_DURATION)
                      => /\ OutputName(i) \in DOMAIN audio
                         /\ audio[OutputName(i)] = File(text, engine[text].ms, Unshifted)
-----------------------------------------------------------------------------
(* split_narration_dialogue on its own: claim C15 *)

\* The lines split_narration_dialogue is called on: up to MaxLineLen tokens
SplitTokens == {QUOTE, SPACE, "go", "."}
SplitLines == UNION {[1..n -> SplitTokens] : n \in 0..MaxLineLen}

SplitInit ==
    /\ pc = "split"
    /\ last_call \in {[op |-> "split_narration_dialogue", line |-> l] : l \in SplitLines}
    /\ speakers = InitSpeakers
    /\ superbook = <<>>
    /\ line_no = 0
    /\ named_speaker = None
    /\ gender = "unknown"
    /\ line_parts = <<>>
    /\ last_quoted_speaker = None
    /\ current_speaker_index = 0
    /\ audio = EmptyDirectory
    /\ engine = EmptyDirectory
    /\ use_multithreading = None
    /\ task_pc = <<>>
    /\ seq_index = 0
    /\ combined = NotCombined

\* line_parts = split_narration_dialogue(line)
SplitNarrationDialogue ==
    /\ pc = "split"
    /\ line_parts' = split_narration_dialogue(last_call.line)
    /\ pc' = "split_done"
    /\ UNCHANGED <<speakers, superbook, line_no, named_speaker, gender, last_quoted_speaker,
                   current_speaker_index, last_call>>
    /\ UNCHANGED audio_vars

SplitNext == SplitNarrationDialogue

SplitSpec == SplitInit /\ [][SplitNext]_vars

\* The line's double quotes come in pairs
Balanced(line) == Cardinality({i \in 1..Len(line) : line[i] = QUOTE}) % 2 = 0

\* The texts of the parts, one after the other
RECURSIVE Concatenation(_)
Concatenation(parts) ==
    IF parts = <<>> THEN <<>> ELSE Head(parts).text \o Concatenation(Tail(parts))

Without(text, dropped) == SelectSeq(text, LAMBDA t : t \notin dropped)

\* The line cut at its double quotes: with balanced quotes the runs in odd
\* places are outside the quotes and those in even places inside
RECURSIVE Runs(_)
Runs(line) ==
    LET q == NextQuote(line, 1)
    IN  IF q > Len(line) THEN <<line>>
        ELSE <<SubSeq(line, 1, q - 1)>> \o Runs(SubSeq(line, q + 1, Len(line)))

\* The runs that are more than blanks, each tagged by its place and stripped
RECURSIVE TaggedRuns(_, _)
TaggedRuns(runs, k) ==
    IF k > Len(runs) THEN <<>>
    ELSE (IF strip(runs[k]) = <<>> THEN <<>>
          ELSE <<[type |-> IF k % 2 = 1 THEN "narration" ELSE "dialogue",
                  text |-> strip(runs[k])]>>)
         \o TaggedRuns(runs, k + 1)

\* C15, as stated: for a line with balanced quotes the parts are, from left
\* to right, the text outside quote pairs tagged narration and the text
\* inside tagged dialogue, without the parts that are only blanks, and their
\* texts together are the line without its blanks.
C15_Reconstructs ==
    (pc = "split_done" /\ Balanced(last_call.line))
        => /\ line_parts = TaggedRuns(Runs(last_call.line), 1)
           /\ Without(Concatenation(line_parts), {SPACE}) = Without(last_call.line, {SPACE})

\* C15, amended: the same, the texts together being the line without its
\* blanks and without its double quotes.
C15_ReconstructsButQuotes ==
    (pc = "split_done" /\ Balanced(last_call.line))
        => /\ line_parts = TaggedRuns(Runs(last_call.line), 1)
           /\ Without(Concatenation(line_parts), {SPACE})
                  = Without(last_call.line, {SPACE, QUOTE})

\* A line with narration before a quote pair, blanks, and dialogue in the
\* pair has been split
C15_Witness ==
    /\ pc = "split_done"
    /\ Balanced(last_call.line)
    /\ last_call.line # <<>>
    /\ last_call.line[1] = "go"
    /\ SPACE \in {last_call.line[i] : i \in 1..Len(last_call.line)}
    /\ \E i, j \in 1..Len(line_parts) :
          i < j /\ line_parts[i].type = "narration" /\ line_parts[j].type = "dialogue"
-----------------------------------------------------------------------------
(* The last quoted speaker: claims C16 and C20; the files combined: C17 *)

\* C16: in a line with a named speaker who is the last quoted speaker, a
\* narration part leaves the named speaker the last quoted speaker, even when
\* an attribution verb followed by another word is in it.
C16_NamedSpeakerKept ==
    [][(/\ pc = "part"
        /\ line_parts # <<>>
        /\ Head(line_parts).type = "narration"
        /\ named_speaker # None
        /\ last_quoted_speaker = named_speaker)
          => last_quoted_speaker' = named_speaker]_vars

\* C17: every file combine_audio_files has combined is the output file of
\* exactly one entry of the run, one with a registered speaker whose TTS made
\* audio: no temporary file, no file of a skipped or failed entry, no file of
\* an earlier run.
C17_OnlyOutputFiles ==
    pc = "done"
        => \A k \in 1..Len(combined.order) :
              /\ Cardinality({i \in DOMAIN superbook : OutputName(i) = combined.order[k]}) = 1
              /\ \A i \in DOMAIN superbook :
                    OutputName(i) = combined.order[k]
                        => /\ FindSpeaker(speakers, superbook[i].speaker) # 0
                           /\ engine[superbook[i].text].tts = "ok"

\* C20: in every state last_quoted_speaker is None or the name of a
\* registered speaker, and a dialogue part without a named speaker that is
\* credited to the last quoted speaker is credited to a registered speaker.
C20_ContextRegistered ==
    /\ [](last_quoted_speaker = None \/ Registered(speakers, last_quoted_speaker))
    /\ [][(/\ pc = "part"
           /\ line_parts # <<>>
           /\ Head(line_parts).type = "dialogue"
           /\ named_speaker = None
           /\ last_quoted_speaker # None)
             => /\ superbook'[Len(superbook')].speaker = last_quoted_speaker
                /\ Registered(speakers', last_quoted_speaker)]_vars

\* The speaker detected in a narration part, registered by that part, is the
\* last quoted speaker, and a later dialogue without a named speaker has been
\* credited to it
C20_Witness ==
    /\ pc \in {"line", "part"}
    /\ named_speaker = None
    /\ last_quoted_speaker = "he"
    /\ Registered(speakers, "he")
    /\ superbook # <<>>
    /\ superbook[Len(superbook)].speaker = "he"
-----------------------------------------------------------------------------
(* Errors: claims C18 and C19 *)

\* C18: an error raised while a line is annotated or attributed never ends
\* process_text_lines: the line is skipped and the loop goes on, so the call
\* is in no state ended by the error.
C18_LineErrorSkipped == pc # "raised"

\* The .wav files of ./audio that can be read, in ascending order of name
ReadableOrder == sorted({n \in DOMAIN audio : endswith(n, Wav) /\ audio[n].readable})

\* C19: when combine_audio_files has run, it has skipped the file it could
\* not read, combined all the others in order and written the combined file.
C19_CorruptSkipped ==
    pc \in {"done", "raised"}
        => /\ pc = "done"
           /\ combined.order = ReadableOrder

=============================================================================
